---- MODULE Spec2Model ----
(***************************************************************************)
(* Route reveal animation of src/src/components/MapComponent.vue:          *)
(* loadRoutesLayer / startRouteAnimations / animateRoute (with its frame   *)
(* callback animate) / stopAllAnimations / setAnimationSpeed / cleanup.    *)
(*                                                                         *)
(* Everything runs on the browser's single event loop, so every handler    *)
(* (a timer callback, a frame callback, a call from the console, the       *)
(* continuation of an await) is one atomic action.                         *)
(*                                                                         *)
(* Times are integer milliseconds.  Progress is computed exactly           *)
(* (floor(elapsed * L / D)); the code computes it in double precision.     *)
(***************************************************************************)
EXTENDS Integers, Sequences, FiniteSets, TLC

(***************************************************************************)
(* Bounds of the model.                                                    *)
(***************************************************************************)
\* features in the fetched collection: 0 .. MaxRoutes
MaxRoutes == 2
\* coordinates of the longest path of a feature
MaxCoords == 3
\* frames per route duration: the frame clock advances by RouteDuration / Granularity
Granularity == 3
\* the route counts the schedule planner is evaluated on: 1 .. MaxPlanRoutes
MaxPlanRoutes == 4
\* the geometries flattening is evaluated on: up to MaxSegments line strings of
\* up to MaxSegmentLen coordinates each
MaxSegments == 3
MaxSegmentLen == 2

(***************************************************************************)
(* Program constants.                                                      *)
(***************************************************************************)
TotalAnimationTime == 1500000
RouteDuration == 15000
MinStagger == 200
DefaultAnimationDuration == 2000
MsPerSecond == 1000
\* `let startTime = null`
Null == -1

\* durationInSeconds values passed to setAnimationSpeed
Speeds == {1}

\* inputs of the schedule planner when it is evaluated on its own
PlanWindows == {1500, 3000, TotalAnimationTime}
PlanDurations == {1500, 3000, RouteDuration}
PlanFloors == {0, MinStagger, 1000}

Max(a, b) == IF a >= b THEN a ELSE b
Min(a, b) == IF a <= b THEN a ELSE b

VARIABLES
    features,            \* geojson.features of the routes file
    map,                 \* map.value: "live" or "null"
    mapLoaded,           \* the map's 'load' event has fired
    loading,             \* loadRoutesLayer invocations awaiting their fetch
    routesSource,        \* source 'routes' and layer 'routes-lines' exist
    baseVisibility,      \* layout visibility of 'routes-lines'
    animSource,          \* animSource[i]: source animated-route-i exists
    sourceData,          \* sourceData[i]: coordinates held by animated-route-i
    plan,                \* the stagger plan of startRouteAnimations
    routeDuration,       \* routeDuration captured by the timers' closures
    timer,               \* timer[i]: state of route i's setTimeout
    timerDue,            \* timerDue[i]: earliest time that timer may fire
    isAnimationActive,   \* closure variable of animateRoute, per route
    startTime,           \* closure variable of animateRoute, per route
    currentStep,         \* closure variable of animateRoute, per route
    animatedCoordinates, \* closure variable of animateRoute, per route
    raf,                 \* raf[i]: route i's frame callback: "none", "ready", "queued"
    phase,               \* phase[i]: where route i's animator is
    animationControllers,\* keys of the registry Map
    animationDuration,   \* animationDuration.value
    service,             \* service[i]: what the map answers route i's next publish with
    now,                 \* the clock (ms)
    stoppedWhile         \* stoppedWhile[i]: phase of route i at the last stop-all that met it

vars == << features, map, mapLoaded, loading, routesSource, baseVisibility,
           animSource, sourceData, plan, routeDuration, timer, timerDue,
           isAnimationActive, startTime, currentStep, animatedCoordinates,
           raf, phase, animationControllers, animationDuration, service, now,
           stoppedWhile >>

\* the program's own state: everything but the clock and the record of history
progVars == << features, map, mapLoaded, loading, routesSource, baseVisibility,
               animSource, sourceData, plan, routeDuration, timer, timerDue,
               isAnimationActive, startTime, currentStep, animatedCoordinates,
               raf, phase, animationControllers, animationDuration, service >>

\* the route indices of a collection of up to MaxRoutes features
RouteIds == 0 .. (MaxRoutes - 1)

\* the route indices the component keeps state for
Routes == DOMAIN timer

(***************************************************************************)
(* Route features.  A feature is [type, shape]: its geometry type ("none"  *)
(* when the feature has no geometry) and the lengths of its paths; the     *)
(* points of a feature are numbered 1, 2, ... in their order in the file.  *)
(* A LineString has one path; a MultiLineString or a Polygon a list.       *)
(***************************************************************************)
FeatureKinds ==
    { [type |-> "LineString",      shape |-> << 0 >>],
      [type |-> "LineString",      shape |-> << 1 >>],
      [type |-> "MultiLineString", shape |-> << 1, MaxCoords - 1 >>],
      [type |-> "MultiLineString", shape |-> << 0 >>],
      [type |-> "Polygon",         shape |-> << MaxCoords >>],
      [type |-> "none",            shape |-> << >>] }

FeatureCollections == UNION { [1 .. n -> FeatureKinds] : n \in 0 .. MaxRoutes }

RECURSIVE SegmentsFrom(_, _)
\* the paths of lengths `shape`, the first point being `first`
SegmentsFrom(shape, first) ==
    IF shape = << >> THEN << >>
    ELSE << [k \in 1 .. Head(shape) |-> first + k - 1] >>
         \o SegmentsFrom(Tail(shape), first + Head(shape))

\* feature.geometry.coordinates of a MultiLineString: its line strings
LineStrings(f) == SegmentsFrom(f.shape, 1)

\* feature.geometry.coordinates.length
CoordinatesLength(f) ==
    IF f.type = "LineString" THEN f.shape[1] ELSE Len(f.shape)

\* the feature of route index i (0-based, as forEach numbers them)
FeatureAt(i) == features[i + 1]

HasFeature(i) == i < Len(features)

\* a validation without the check of the geometry type
PassesValidation_AnyType(f) ==
    /\ f.type # "none"
    /\ CoordinatesLength(f) # 0

\* the validation of startRouteAnimations, both early returns
PassesValidation(f) ==
    /\ f.type # "none"
    /\ CoordinatesLength(f) # 0
    /\ f.type \in {"LineString", "MultiLineString"}

RECURSIVE ConcatAll_Prepending(_)
\* coordinates.reduce((acc, lineString) => lineString.concat(acc), [])
ConcatAll_Prepending(segs) ==
    IF segs = << >> THEN << >> ELSE ConcatAll_Prepending(Tail(segs)) \o Head(segs)

RECURSIVE ConcatAll(_)
\* coordinates.reduce((acc, lineString) => acc.concat(lineString), [])
ConcatAll(segs) ==
    IF segs = << >> THEN << >> ELSE Head(segs) \o ConcatAll(Tail(segs))

\* `coordinates` of animateRoute; << >> also where it returns on an unsupported type
Flatten(f) ==
    IF f.type = "LineString" THEN LineStrings(f)[1]
    ELSE IF f.type = "MultiLineString" THEN ConcatAll(LineStrings(f))
    ELSE << >>

\* coordinates.slice(0, n)
Slice(coords, n) == SubSeq(coords, 1, Min(n, Len(coords)))

(***************************************************************************)
(* The schedule planner: the arithmetic of startRouteAnimations.           *)
(* A delay is a rational << numerator, denominator >>; denominator 0 is    *)
(* the Infinity (numerator 1) or NaN (numerator 0) of a division by 0.     *)
(***************************************************************************)
\* Math.min in place of Math.max
StaggerDelay_Min(N, W, D, F) ==
    IF N = 0 THEN << F, 1 >>
    ELSE IF F * N <= W - D THEN << F * N, N >> ELSE << W - D, N >>

\* Math.max(F, (W - D) / N)
StaggerDelay(N, W, D, F) ==
    IF N = 0
    THEN IF W > D THEN << 1, 0 >> ELSE IF W = D THEN << 0, 0 >> ELSE << F, 1 >>
    ELSE IF F * N >= W - D THEN << F * N, N >> ELSE << W - D, N >>

\* (index + 1) * staggerDelay
StartOffset_FromOne(index, stagger) == << (index + 1) * stagger[1], stagger[2] >>

\* index * staggerDelay
StartOffset(index, stagger) == << index * stagger[1], stagger[2] >>

\* the whole plan: the inputs and the delay handed to setTimeout for each index
MakePlan(N, W, D, F) ==
    [ N |-> N, W |-> W, D |-> D, F |-> F,
      offsets |-> [k \in 1 .. N |-> StartOffset(k - 1, StaggerDelay(N, W, D, F))] ]

NoPlan == [ N |-> 0, W |-> 0, D |-> 0, F |-> 0, offsets |-> << >> ]

\* setTimeout takes its delay as a whole number of ms
TimerDelay(offset) == offset[1] \div offset[2]

(***************************************************************************)
(* The registry.  Its keys are strings: a route id followed by a suffix.   *)
(***************************************************************************)
\* `${routeId}-stop`, the key animateRoute stores the stop function under
StopKey(i) == [route |-> i, suffix |-> "-stop"]

\* routeId, the key animate deletes on completion
RouteKey(i) == [route |-> i, suffix |-> ""]

\* key.endsWith('-stop')
EndsWithStop(key) == key.suffix = "-stop"

(***************************************************************************)
(* The arithmetic of one frame callback.                                   *)
(***************************************************************************)
\* `if (!startTime) startTime = timestamp`: null and 0 are both falsy
AnchorOf(anchor, timestamp) ==
    IF anchor = Null \/ anchor = 0 THEN timestamp ELSE anchor

\* Math.floor(Math.min(elapsed / duration, 1) * totalSteps)
StepAt(elapsed, duration, totalSteps) ==
    IF elapsed >= duration THEN totalSteps
    ELSE (elapsed * totalSteps) \div duration

\* progress > 1 || currentStep > totalSteps
IsFinal_Beyond(elapsed, duration, totalSteps) ==
    StepAt(elapsed, duration, totalSteps) > totalSteps

\* progress >= 1 || currentStep >= totalSteps
IsFinal(elapsed, duration, totalSteps) ==
    elapsed >= duration \/ StepAt(elapsed, duration, totalSteps) >= totalSteps

\* coordinates.slice(0, Math.max(1, currentStep))
RevealedPrefix_UpToStep(coords, step) == Slice(coords, Max(1, step))

\* coordinates.slice(0, currentStep)
RevealedPrefix_NoFirstPoint(coords, step) == Slice(coords, step)

\* coordinates.slice(currentStep - 1, currentStep + 1)
RevealedPrefix_Window(coords, step) ==
    SubSeq(coords, Max(1, step), Min(Len(coords), step + 1))

\* coordinates.slice(0, Math.max(1, currentStep + 1))
RevealedPrefix(coords, step) == Slice(coords, Max(1, step + 1))

\* animatedCoordinates after a callback that sees `elapsed`: the whole route on
\* the completion branch, else the revealed prefix
CoordinatesAt(coords, elapsed, duration) ==
    IF IsFinal(elapsed, duration, Len(coords)) THEN coords
    ELSE RevealedPrefix(coords, StepAt(elapsed, duration, Len(coords)))

(***************************************************************************)
(* Initial state: the component is mounted, initializeMap has created the  *)
(* map, and the map's 'load' event is still to come.                       *)
(***************************************************************************)
\* everything but the routes file and the plan, for the route indices `ids` and
\* the clock reading t
MountedWith(ids, t) ==
    /\ map = "live"
    /\ mapLoaded = FALSE
    /\ loading = 0
    /\ routesSource = FALSE
    /\ baseVisibility = "visible"
    /\ animSource = [i \in ids |-> FALSE]
    /\ sourceData = [i \in ids |-> << >>]
    /\ routeDuration = 0
    /\ timer = [i \in ids |-> "unset"]
    /\ timerDue = [i \in ids |-> 0]
    /\ isAnimationActive = [i \in ids |-> FALSE]
    /\ startTime = [i \in ids |-> Null]
    /\ currentStep = [i \in ids |-> 0]
    /\ animatedCoordinates = [i \in ids |-> << >>]
    /\ raf = [i \in ids |-> "none"]
    /\ phase = [i \in ids |-> "idle"]
    /\ animationControllers = {}
    /\ animationDuration = DefaultAnimationDuration
    /\ service = [i \in ids |-> "ok"]
    /\ now = t
    /\ stoppedWhile = [i \in ids |-> "none"]

Mounted == MountedWith(RouteIds, 0)

Init ==
    /\ features \in FeatureCollections
    /\ plan = NoPlan
    /\ Mounted

(***************************************************************************)
(* loadRoutesLayer up to its `await fetch`.                                *)
(***************************************************************************)
\* what a call of loadRoutesLayer leaves in `loading` (routesAssetsPath is configured)
LoadingAfterCall == IF map = "live" THEN loading + 1 ELSE loading

\* map.on('load'): loadRoutesLayer()
MapLoad ==
    /\ map = "live"
    /\ ~mapLoaded
    /\ mapLoaded' = TRUE
    /\ loading' = LoadingAfterCall
    /\ UNCHANGED << features, map, routesSource, baseVisibility, animSource,
                    sourceData, plan, routeDuration, timer, timerDue,
                    isAnimationActive, startTime, currentStep,
                    animatedCoordinates, raf, phase, animationControllers,
                    animationDuration, service, now, stoppedWhile >>

(***************************************************************************)
(* startRouteAnimations(geojson), called by loadRoutesLayer.               *)
(***************************************************************************)
\* the routeDuration constant of startRouteAnimations
CampaignDuration == RouteDuration

\* the features forEach reaches the setTimeout for: valid, and addSource did not throw
Scheduled(i) ==
    /\ HasFeature(i)
    /\ PassesValidation(FeatureAt(i))
    /\ ~animSource[i]

\* startRouteAnimations with the window W, the duration D and the floor F
StartRouteAnimationsWith(W, D, F) ==
    /\ plan' = MakePlan(Len(features), W, D, F)
    /\ routeDuration' = D
    /\ baseVisibility' = "none"
    /\ animSource' = [i \in Routes |-> animSource[i] \/ Scheduled(i)]
    /\ timer' = [i \in Routes |-> IF Scheduled(i) THEN "scheduled" ELSE timer[i]]
    /\ timerDue' = [i \in Routes |->
                      IF Scheduled(i) THEN now + TimerDelay(plan'.offsets[i + 1])
                      ELSE timerDue[i]]
    /\ phase' = [i \in Routes |-> IF Scheduled(i) THEN "pending" ELSE phase[i]]

\* startRouteAnimations as it is: its three constants
StartRouteAnimations ==
    StartRouteAnimationsWith(TotalAnimationTime, CampaignDuration, MinStagger)

\* loadRoutesLayer after its fetch: ok is whether fetch and response.json() succeeded
LoadRoutesResolve(ok) ==
    /\ loading > 0
    /\ loading' = loading - 1
    /\ IF ok /\ map = "live" /\ ~routesSource
       THEN /\ routesSource' = TRUE
            /\ StartRouteAnimations
       ELSE \* the fetch failed, map.value is null, or addSource('routes') throws
            \* on the id that exists: all caught by loadRoutesLayer's catch
            /\ UNCHANGED << routesSource, baseVisibility, animSource, plan,
                            routeDuration, timer, timerDue, phase >>
    /\ UNCHANGED << features, map, mapLoaded, sourceData, isAnimationActive,
                    startTime, currentStep, animatedCoordinates, raf,
                    animationControllers, animationDuration, service, now, stoppedWhile >>

(***************************************************************************)
(* The setTimeout callback of route i: animateRoute.                       *)
(***************************************************************************)
TimerFire(i) ==
    /\ timer[i] = "scheduled"
    /\ now >= timerDue[i]
    /\ timer' = [timer EXCEPT ![i] = "fired"]
    /\ IF Flatten(FeatureAt(i)) = << >>
       THEN \* animateRoute returns before it creates the animator
            /\ phase' = [phase EXCEPT ![i] = "rejected"]
            /\ UNCHANGED << isAnimationActive, startTime, currentStep,
                            animatedCoordinates, raf, animationControllers >>
       ELSE /\ phase' = [phase EXCEPT ![i] = "running"]
            /\ currentStep' = [currentStep EXCEPT ![i] = 0]
            /\ animatedCoordinates' = [animatedCoordinates EXCEPT ![i] = << >>]
            /\ isAnimationActive' = [isAnimationActive EXCEPT ![i] = TRUE]
            /\ startTime' = [startTime EXCEPT ![i] = Null]
            /\ animationControllers' = animationControllers \cup {StopKey(i)}
            /\ raf' = [raf EXCEPT ![i] = "ready"]
    /\ UNCHANGED << features, map, mapLoaded, loading, routesSource,
                    baseVisibility, animSource, sourceData, plan, routeDuration,
                    timerDue, animationDuration, service, now, stoppedWhile >>

(***************************************************************************)
(* One animation frame.  The browser runs every frame callback that was    *)
(* requested before the frame, one after the other and with one timestamp  *)
(* (now), and nothing else runs in between; the callbacks of different     *)
(* routes touch different closures, sources and registry keys.             *)
(* animate(timestamp) of route i is given by the operators below.          *)
(* service[i] is the answer of the map to the getSource and setData calls  *)
(* of route i: "ok", "throws" (one of them throws) or "missing" (getSource *)
(* returns nothing).                                                       *)
(***************************************************************************)
\* route i's callback runs in this frame
Runs(i) == raf[i] = "ready"

\* a guard that tests the flag only: `if (!isAnimationActive) return`
Ticks_FlagOnly(i) == Runs(i) /\ isAnimationActive[i]

\* it gets past `if (!map.value || !isAnimationActive) return`
Ticks(i) == Runs(i) /\ map = "live" /\ isAnimationActive[i]

\* startTime after `if (!startTime) startTime = timestamp`
AnchorAt(i) == AnchorOf(startTime[i], now)

\* elapsed = timestamp - startTime
ElapsedAt(i) == now - AnchorAt(i)

\* currentStep after this callback
StepOfTick(i) == StepAt(ElapsedAt(i), routeDuration, Len(Flatten(FeatureAt(i))))

\* the callback takes the completion branch
Completes(i) ==
    Ticks(i) /\ IsFinal(ElapsedAt(i), routeDuration, Len(Flatten(FeatureAt(i))))

\* animatedCoordinates after this callback
CoordinatesOfTick(i) ==
    CoordinatesAt(Flatten(FeatureAt(i)), ElapsedAt(i), routeDuration)

\* getSource or setData throws inside the callback's try block
Throws(i) == Ticks(i) /\ service[i] = "throws"

\* getSource(animatedRouteId) is there, so setData is called, and it succeeds
Publishes(i) == Ticks(i) /\ animSource[i] /\ service[i] = "ok"

\* the catch of a partial publish: `isAnimationActive = false; return`
Fails(i) == Throws(i) /\ ~Completes(i)

\* animationControllers.value.delete(routeId)
DeletedOnCompletion(i) == RouteKey(i)

\* the completion branch without its `return`
Reschedules_AfterCompletion(i) == Ticks(i) /\ isAnimationActive[i]

\* `if (isAnimationActive) requestAnimationFrame(animate)`, after a partial publish
\* that did not throw
Reschedules(i) == Ticks(i) /\ ~Completes(i) /\ ~Fails(i) /\ isAnimationActive[i]

\* a catch that leaves the flag as it is
FlagsAfterFrame_NotCleared == isAnimationActive

\* a flag shared by all animators
FlagsAfterFrame_Shared ==
    [i \in Routes |-> isAnimationActive[i] /\ ~(\E j \in Routes : Fails(j))]

\* the liveness flags after the frame: cleared by the catch of a partial publish
FlagsAfterFrame ==
    [i \in Routes |-> isAnimationActive[i] /\ ~Fails(i)]

Frame ==
    /\ \E i \in Routes : Runs(i)
    /\ startTime' = [i \in Routes |-> IF Ticks(i) THEN AnchorAt(i) ELSE startTime[i]]
    /\ currentStep' = [i \in Routes |-> IF Ticks(i) THEN StepOfTick(i) ELSE currentStep[i]]
    /\ animatedCoordinates' =
           [i \in Routes |-> IF Ticks(i) THEN CoordinatesOfTick(i)
                             ELSE animatedCoordinates[i]]
    /\ sourceData' = [i \in Routes |-> IF Publishes(i) THEN CoordinatesOfTick(i)
                                       ELSE sourceData[i]]
    /\ animationControllers' =
           animationControllers \ { DeletedOnCompletion(i) : i \in { j \in Routes : Completes(j) } }
    /\ raf' = [i \in Routes |-> IF ~Runs(i) THEN raf[i]
                                ELSE IF Reschedules(i) THEN "queued" ELSE "none"]
    /\ phase' = [i \in Routes |-> IF ~Runs(i) THEN phase[i]
                                  ELSE IF ~Ticks(i) THEN "cancelled"
                                  ELSE IF Completes(i) THEN "completed"
                                  ELSE IF Fails(i) THEN "failed"
                                  ELSE phase[i]]
    /\ isAnimationActive' = FlagsAfterFrame
    /\ UNCHANGED << features, map, mapLoaded, loading, routesSource,
                    baseVisibility, animSource, plan, routeDuration, timer,
                    timerDue, animationDuration, service, now, stoppedWhile >>

(***************************************************************************)
(* stopAllAnimations, setAnimationSpeed, cleanup.                          *)
(***************************************************************************)
\* a stop-all that toggles the layer
VisibilityAfterStop_Toggle ==
    IF map = "live" /\ routesSource
    THEN IF baseVisibility = "visible" THEN "none" ELSE "visible"
    ELSE baseVisibility

\* the visibility of 'routes-lines' after stopAllAnimations
VisibilityAfterStop ==
    IF map = "live" /\ routesSource THEN "visible" ELSE baseVisibility

\* a stop-all whose forEach calls no stop function
FlagsAfterStop_NoneCalled == isAnimationActive

\* the liveness flags after the forEach over the registry: every value stored
\* under a key ending in '-stop' is called (no key holds an array of timeout ids)
FlagsAfterStop ==
    [i \in Routes |->
        IF \E key \in animationControllers : EndsWithStop(key) /\ key.route = i
        THEN FALSE
        ELSE isAnimationActive[i]]

\* animationControllers.value.clear()
RegistryAfterStop == {}

\* what the stop-all met: a timer still to fire, or an animator between two frames
MetByStop(i) ==
    IF timer[i] = "scheduled" THEN "pending"
    ELSE IF phase[i] = "running" THEN "running"
    ELSE stoppedWhile[i]

StopAllAnimations ==
    /\ baseVisibility' = VisibilityAfterStop
    /\ isAnimationActive' = FlagsAfterStop
    /\ animationControllers' = RegistryAfterStop
    /\ stoppedWhile' = [i \in Routes |-> MetByStop(i)]

\* window.stopAllAnimations()
StopAll ==
    /\ StopAllAnimations
    /\ UNCHANGED << features, map, mapLoaded, loading, routesSource, animSource,
                    sourceData, plan, routeDuration, timer, timerDue, startTime,
                    currentStep, animatedCoordinates, raf, phase,
                    animationDuration, service, now >>

\* window.setAnimationSpeed(durationInSeconds)
SetAnimationSpeed(durationInSeconds) ==
    /\ animationDuration' = durationInSeconds * MsPerSecond
    /\ IF animationControllers # {}
       THEN /\ StopAllAnimations
            /\ loading' = LoadingAfterCall
       ELSE UNCHANGED << baseVisibility, isAnimationActive,
                         animationControllers, stoppedWhile, loading >>
    /\ UNCHANGED << features, map, mapLoaded, routesSource, animSource,
                    sourceData, plan, routeDuration, timer, timerDue, startTime,
                    currentStep, animatedCoordinates, raf, phase, service, now >>

\* onUnmounted: cleanup(); map.remove() takes the sources and layers with it
Cleanup ==
    /\ map = "live"
    /\ StopAllAnimations
    /\ map' = "null"
    /\ routesSource' = FALSE
    /\ animSource' = [i \in Routes |-> FALSE]
    /\ UNCHANGED << features, mapLoaded, loading, sourceData, plan,
                    routeDuration, timer, timerDue, startTime, currentStep,
                    animatedCoordinates, raf, phase, animationDuration, service,
                    now >>

(***************************************************************************)
(* The clock.  Time passes to the next frame, to the time a timer is due,  *)
(* or to the time a running animator reaches its full duration; a frame    *)
(* callback requested from inside a frame runs in a later frame, and a     *)
(* timer fires before the clock passes the time it is due (frames may be   *)
(* late or skipped: the browser gives no frames to a hidden page).         *)
(***************************************************************************)
FramePeriod == routeDuration \div Granularity

\* frames follow one another while an animator is between its anchor and its end;
\* the callbacks that are ready run before the next frame
NextFrameAllowed ==
    /\ \A i \in Routes : raf[i] # "ready"
    /\ \E i \in Routes :
           /\ raf[i] # "none"
           /\ startTime[i] # Null
           /\ now + FramePeriod <= startTime[i] + routeDuration

ClockTargets ==
    (IF NextFrameAllowed THEN { now + FramePeriod } ELSE {})
    \cup { timerDue[i] : i \in { j \in Routes : timer[j] = "scheduled" /\ timerDue[j] > now } }
    \cup { startTime[i] + routeDuration :
             i \in { j \in Routes : /\ raf[j] # "none"
                                    /\ startTime[j] # Null
                                    /\ startTime[j] + routeDuration > now } }

\* no timer is overdue
TimersOnTime == \A i \in Routes : timer[i] = "scheduled" => timerDue[i] > now

Advance(t) ==
    /\ TimersOnTime
    /\ t \in ClockTargets
    /\ now' = t
    /\ raf' = [i \in Routes |-> IF raf[i] = "queued" THEN "ready" ELSE raf[i]]
    /\ UNCHANGED << features, map, mapLoaded, loading, routesSource,
                    baseVisibility, animSource, sourceData, plan, routeDuration,
                    timer, timerDue, isAnimationActive, startTime, currentStep,
                    animatedCoordinates, phase, animationControllers,
                    animationDuration, service, stoppedWhile >>

Next ==
    \/ MapLoad
    \/ \E ok \in BOOLEAN : LoadRoutesResolve(ok)
    \/ \E i \in Routes : TimerFire(i)
    \/ Frame
    \/ StopAll
    \/ \E s \in Speeds : SetAnimationSpeed(s)
    \/ Cleanup
    \/ \E t \in ClockTargets : Advance(t)

Spec == Init /\ [][Next]_vars

(***************************************************************************)
(* The same program on a map that may fail: from some frame on the map     *)
(* answers the publishes of a running animator with an exception, or with  *)
(* no source.  The animations may be stopped and the component unmounted;  *)
(* the speed is left alone.  The routes file is fetched successfully,      *)
(* timers and frame callbacks that are due do run, and the clock goes on   *)
(* while the program waits for it.                                         *)
(***************************************************************************)
ServiceFaults == {"throws", "missing"}

ServiceFails(i, fault) ==
    /\ map = "live"
    /\ phase[i] = "running"
    /\ raf[i] # "none"
    /\ service[i] = "ok"
    /\ service' = [service EXCEPT ![i] = fault]
    /\ UNCHANGED << features, map, mapLoaded, loading, routesSource,
                    baseVisibility, animSource, sourceData, plan, routeDuration,
                    timer, timerDue, isAnimationActive, startTime, currentStep,
                    animatedCoordinates, raf, phase, animationControllers,
                    animationDuration, now, stoppedWhile >>

NextFair ==
    \/ MapLoad
    \/ LoadRoutesResolve(TRUE)
    \/ \E i \in Routes : TimerFire(i)
    \/ Frame
    \/ StopAll
    \/ Cleanup
    \/ \E t \in ClockTargets : Advance(t)
    \/ \E i \in Routes, fault \in ServiceFaults : ServiceFails(i, fault)

Fairness ==
    /\ WF_vars(MapLoad)
    /\ WF_vars(LoadRoutesResolve(TRUE))
    /\ WF_vars(\E i \in Routes : TimerFire(i))
    /\ WF_vars(Frame)
    /\ WF_vars(\E t \in ClockTargets : Advance(t))

SpecFair == Init /\ [][NextFair]_vars /\ Fairness

(***************************************************************************)
(* The schedule planner on its own: the plan for N routes, a window W, a   *)
(* duration D and a floor F, by the arithmetic startRouteAnimations uses.  *)
(***************************************************************************)
PlanInputs ==
    [ N : 1 .. MaxPlanRoutes, W : PlanWindows, D : PlanDurations, F : PlanFloors,
      offsets : { << >> } ]

InitPlan ==
    /\ features = << >>
    /\ plan \in PlanInputs
    /\ Mounted

ComputePlan ==
    /\ plan.offsets = << >>
    /\ plan' = MakePlan(plan.N, plan.W, plan.D, plan.F)
    /\ UNCHANGED << features, map, mapLoaded, loading, routesSource,
                    baseVisibility, animSource, sourceData, routeDuration, timer,
                    timerDue, isAnimationActive, startTime, currentStep,
                    animatedCoordinates, raf, phase, animationControllers,
                    animationDuration, service, now, stoppedWhile >>

NextPlan == ComputePlan

SpecPlan == InitPlan /\ [][NextPlan]_vars

(***************************************************************************)
(* Flattening on its own: one route of any geometry up to MaxSegments line *)
(* strings, taken through its whole animation on an undisturbed map.       *)
(***************************************************************************)
FlattenShapes == UNION { [1 .. n -> 0 .. MaxSegmentLen] : n \in 0 .. MaxSegments }

FlattenInputs ==
    { [type |-> "LineString", shape |-> << n >>] : n \in 0 .. MaxSegmentLen }
    \cup { [type |-> "MultiLineString", shape |-> sh] : sh \in FlattenShapes }

InitFlatten ==
    /\ features \in { << f >> : f \in FlattenInputs }
    /\ plan = NoPlan
    /\ Mounted

NextFlatten ==
    \/ MapLoad
    \/ LoadRoutesResolve(TRUE)
    \/ \E i \in Routes : TimerFire(i)
    \/ Frame
    \/ \E t \in ClockTargets : Advance(t)

SpecFlatten == InitFlatten /\ [][NextFlatten]_vars

(***************************************************************************)
(* A campaign with other constants: startRouteAnimations evaluated with a  *)
(* window of 3000 ms, a duration of 1500 ms and a floor of 200 ms on three *)
(* LineStrings of ten coordinates, on an undisturbed map, the page having  *)
(* been open for some time.                                                *)
(***************************************************************************)
Scenario == [ N |-> 3, L |-> 10, W |-> 3000, D |-> 1500, F |-> 200 ]

ScenarioRoutes == 0 .. (Scenario.N - 1)

\* the clock when the component is mounted
ScenarioOrigins == {0, 100, 2000}

InitScenario ==
    /\ features = [k \in 1 .. Scenario.N |->
                     [type |-> "LineString", shape |-> << Scenario.L >>]]
    /\ plan = NoPlan
    /\ \E t \in ScenarioOrigins : MountedWith(ScenarioRoutes, t)

\* loadRoutesLayer after a successful fetch, startRouteAnimations having the
\* scenario's constants
LoadRoutesResolveScenario ==
    /\ loading > 0
    /\ loading' = loading - 1
    /\ map = "live" /\ ~routesSource
    /\ routesSource' = TRUE
    /\ StartRouteAnimationsWith(Scenario.W, Scenario.D, Scenario.F)
    /\ UNCHANGED << features, map, mapLoaded, sourceData, isAnimationActive,
                    startTime, currentStep, animatedCoordinates, raf,
                    animationControllers, animationDuration, service, now,
                    stoppedWhile >>

NextScenario ==
    \/ MapLoad
    \/ LoadRoutesResolveScenario
    \/ \E i \in Routes : TimerFire(i)
    \/ Frame
    \/ \E t \in ClockTargets : Advance(t)

SpecScenario == InitScenario /\ [][NextScenario]_vars

(***************************************************************************)
(*                              The claims                                 *)
(***************************************************************************)
\* the flattened route of index i and its length
RouteCoordinates(i) == Flatten(FeatureAt(i))
RouteLength(i) == Len(RouteCoordinates(i))

\* C1: a route whose timer was still to fire when stopAllAnimations was called
\* is never published to afterwards: its animated source keeps the empty
\* geometry it was created with.
C1_PendingStopNeverPublishes ==
    \A i \in Routes : stoppedWhile[i] = "pending" => sourceData[i] = << >>

\* C2: an animator that was running when stopAllAnimations was called
\* publishes nothing afterwards, requests no further frame, and its source
\* keeps the last prefix it was given before the stop.
C2_StoppedRunningIsFrozen ==
    [][ \A i \in Routes :
          stoppedWhile[i] = "running" =>
             /\ ~Publishes(i)
             /\ sourceData'[i] = sourceData[i]
             /\ ~(raf[i] = "ready" /\ raf'[i] = "queued")
             /\ ~(raf[i] = "none" /\ raf'[i] # "none") ]_vars

\* a route stopped between two frames, frozen on a partial prefix, its queued
\* callback having run and given up, while another animator was stopped too
C2_Witness ==
    \E i \in Routes :
        /\ stoppedWhile[i] = "running"
        /\ phase[i] = "cancelled"
        /\ map = "live"
        /\ Len(sourceData[i]) >= 1
        /\ Len(sourceData[i]) < RouteLength(i)
        /\ \E j \in Routes \ {i} : stoppedWhile[j] = "running"

\* C3: the start offset of the i-th feature is i * max(F, (W - D) / N): the
\* first is 0, they never decrease, and with D >= W two neighbours are F apart.
C3_StartOffsets ==
    plan.offsets # << >> =>
        LET N == plan.N
            \* N * max(F, (W - D) / N)
            spacingTimesN == Max(plan.F * N, plan.W - plan.D)
            o == plan.offsets
        IN  /\ Len(o) = N
            /\ \A k \in 1 .. N :
                  /\ o[k][2] > 0
                  /\ o[k][1] * N = (k - 1) * spacingTimesN * o[k][2]
            /\ o[1][1] = 0
            /\ \A k \in 1 .. N - 1 :
                  /\ o[k][1] * o[k + 1][2] <= o[k + 1][1] * o[k][2]
                  /\ plan.D >= plan.W =>
                        o[k + 1][1] * o[k][2] - o[k][1] * o[k + 1][2]
                           = plan.F * o[k][2] * o[k + 1][2]

\* three routes, W = 3000, D = 1500, F = 200: the offsets 0, 500 and 1000
C3_Witness ==
    /\ plan.W = 3000 /\ plan.D = 1500 /\ plan.F = 200
    /\ plan.offsets = << << 0, 3 >>, << 1500, 3 >>, << 3000, 3 >> >>

\* floor(p * L) for p = clamp(elapsed / D, 0, 1)
FloorOfProgress(L, elapsed, D) ==
    CHOOSE n \in 0 .. L :
        /\ n * D <= Min(Max(elapsed, 0), D) * L
        /\ (n + 1) * D > Min(Max(elapsed, 0), D) * L

\* a non-final callback of route i has just run: it asked for the next frame,
\* and the clock has not moved since
JustPublishedPartial(i) == raf[i] = "queued"

\* C4, as claimed: a non-final tick publishes max(1, floor(p * L)) coordinates.
C4_PublishedCountIsFloor ==
    \A i \in Routes :
        JustPublishedPartial(i) =>
            Len(sourceData[i]) =
                Max(1, FloorOfProgress(RouteLength(i), now - startTime[i], routeDuration))

\* C4, amended: a non-final tick publishes floor(p * L) + 1 coordinates.
C4_PublishedCountIsFloorPlusOne ==
    \A i \in Routes :
        JustPublishedPartial(i) =>
            Len(sourceData[i]) =
                FloorOfProgress(RouteLength(i), now - startTime[i], routeDuration) + 1

\* a non-final tick with floor(p * L) >= 1
C4_Witness ==
    \E i \in Routes :
        /\ JustPublishedPartial(i)
        /\ map = "live"
        /\ FloorOfProgress(RouteLength(i), now - startTime[i], routeDuration) >= 1

\* the elapsed times the published count is sampled at, in increasing order:
\* from 0 to beyond the duration, in steps of half a frame
NumSamples == 2 * Granularity + 2
ElapsedSample(k) == (k * routeDuration) \div (2 * Granularity)

\* C5: for a route of L >= 1 coordinates, a tick at elapsed = 0 publishes 1
\* coordinate, a tick at elapsed = D publishes all L, and the number
\* published never decreases as elapsed grows.
C5_CountAtEndsAndMonotone ==
    \A i \in Routes :
        phase[i] \in {"running", "completed", "cancelled"} =>
            LET c == RouteCoordinates(i)
                D == routeDuration
            IN  /\ Len(c) >= 1 /\ D > 0
                /\ Len(CoordinatesAt(c, 0, D)) = 1
                /\ Len(CoordinatesAt(c, D, D)) = Len(c)
                /\ \A k \in 1 .. NumSamples :
                      Len(CoordinatesAt(c, ElapsedSample(k - 1), D))
                         <= Len(CoordinatesAt(c, ElapsedSample(k), D))
                /\ (JustPublishedPartial(i) /\ now = startTime[i]) =>
                      Len(sourceData[i]) = 1
                /\ (phase[i] = "completed" /\ now = startTime[i] + D) =>
                      Len(sourceData[i]) = Len(c)

\* a route of MaxCoords coordinates whose tick at elapsed = D has published them all
C5_Witness ==
    \E i \in Routes :
        /\ phase[i] = "completed"
        /\ now = startTime[i] + routeDuration
        /\ RouteLength(i) = MaxCoords
        /\ Len(sourceData[i]) = MaxCoords

IsPrefix(s, t) == Len(s) <= Len(t) /\ s = SubSeq(t, 1, Len(s))

\* C6: whatever a step publishes for a route is a prefix of the route's
\* flattened coordinates and extends what the route's source held before.
C6_PublishedPrefixesGrow ==
    [][ \A i \in Routes :
          sourceData'[i] # sourceData[i] =>
             /\ IsPrefix(sourceData[i], sourceData'[i])
             /\ IsPrefix(sourceData'[i], RouteCoordinates(i)) ]_vars

\* a route that has grown to two coordinates or more and goes on, after a stop-all
\* that froze another route
C6_Witness ==
    \E i \in Routes :
        /\ JustPublishedPartial(i)
        /\ isAnimationActive[i]
        /\ Len(sourceData[i]) >= 2
        /\ \E j \in Routes \ {i} : stoppedWhile[j] = "running" /\ Len(sourceData[j]) >= 1

C8_CompletedIsDeregistered ==
    \A i \in Routes :
        phase[i] = "completed" => \A key \in animationControllers : key.route # i

\* the state a stop-all leaves: the registry empty, every animator that was
\* registered not active, the base layer (when there is one) visible; and a
\* second stop-all would leave that state as it is
StopLeavesStoppedState ==
    /\ animationControllers' = {}
    /\ \A key \in animationControllers :
          EndsWithStop(key) => ~isAnimationActive'[key.route]
    /\ (map = "live" /\ routesSource) => baseVisibility' = "visible"
    /\ VisibilityAfterStop' = baseVisibility'
    /\ FlagsAfterStop' = isAnimationActive'
    /\ RegistryAfterStop' = animationControllers'

\* C9, as claimed: a stop-all with an empty registry changes nothing, and a
\* stop-all leaves a state a second stop-all does not change.
C9_StopAllNoOpWhenEmpty ==
    [][ StopAll =>
          /\ animationControllers = {} => UNCHANGED progVars
          /\ StopLeavesStoppedState ]_vars

\* C9, amended: a stop-all with an empty registry changes nothing but the
\* visibility of the base layer, which it makes visible; and a stop-all
\* leaves a state a second stop-all does not change.
C9_StopAllIdempotent ==
    [][ StopAll =>
          /\ animationControllers = {} =>
                UNCHANGED << features, map, mapLoaded, loading, routesSource,
                             animSource, sourceData, plan, routeDuration, timer,
                             timerDue, isAnimationActive, startTime, currentStep,
                             animatedCoordinates, raf, phase, animationControllers,
                             animationDuration >>
          /\ StopLeavesStoppedState ]_vars

\* after a stop-all that met one route running and another still pending
C9_Witness ==
    /\ animationControllers = {}
    /\ map = "live" /\ routesSource /\ baseVisibility = "visible"
    /\ \E i, j \in Routes :
          /\ stoppedWhile[i] = "running" /\ ~isAnimationActive[i]
          /\ stoppedWhile[j] = "pending" /\ timer[j] = "scheduled"

\* C10: a start that follows setAnimationSpeed(s) gives its animators the
\* duration s * 1000 ms.
C10_StartUsesChosenSpeed ==
    [][ (plan = NoPlan /\ plan' # NoPlan /\ animationDuration # DefaultAnimationDuration)
          => routeDuration' = animationDuration ]_vars

\* a feature startRouteAnimations sets up: it passes both validations
ValidRoute(i) == HasFeature(i) /\ PassesValidation(FeatureAt(i))

\* a loadRoutesLayer called by setAnimationSpeed is awaiting its fetch: the
\* call of the map's 'load' handler is the first to resolve, and it is the
\* one that creates the source 'routes'
RestartRequested == loading > 0 /\ routesSource /\ map = "live"

\* startRouteAnimations has just run: every valid route waits for its stagger
\* timer with nothing published to its source
CampaignStarted ==
    \A i \in Routes :
        ValidRoute(i) =>
            timer[i] = "scheduled" /\ phase[i] = "pending" /\ sourceData[i] = << >>

\* C11: when the routes reloaded by a setAnimationSpeed that found animations
\* active have been fetched successfully, a fresh campaign is started: every
\* valid route is scheduled again and will be animated from nothing.
C11_RestartStartsCampaign ==
    [][ (RestartRequested /\ LoadRoutesResolve(TRUE)) => CampaignStarted' ]_vars

\* route i waits for its stagger timer
Pending(i) == timer[i] = "scheduled"

\* route i's animator is between two frames and will publish at the next
Running(i) == phase[i] = "running" /\ isAnimationActive[i] /\ raf[i] # "none"

\* no animator is pending or running while the base layer is visible
HiddenWhileActive ==
    (map = "live" /\ \E i \in Routes : Pending(i) \/ Running(i))
        => baseVisibility = "none"

\* C12: the base layer 'routes-lines' is hidden whenever an animator is
\* pending or running, and a stopAllAnimations leaves it visible.
C12_BaseHiddenWhileActive ==
    [][ /\ HiddenWhileActive'
        /\ StopAll => ((map = "live" /\ routesSource) => baseVisibility' = "visible")
      ]_vars

\* what every throwing tick does: the source keeps its data, the callback
\* asks for no further frame, and the other callbacks of the frame run
NoFrameAfterThrow(i) ==
    /\ sourceData'[i] = sourceData[i]
    /\ raf'[i] = "none"
    /\ \A j \in Routes : Runs(j) => raf'[j] # "ready"

\* C13, as claimed: a tick whose publish throws catches the exception, marks
\* the animator inactive and asks for no further frame, and the animator never
\* has a frame callback again.
C13_ThrowMarksInactive ==
    [][ \A i \in Routes :
          /\ (Frame /\ Throws(i)) => (NoFrameAfterThrow(i) /\ ~isAnimationActive'[i])
          /\ phase[i] = "failed" => raf'[i] = "none" ]_vars

\* C13, amended: a tick whose publish throws catches the exception and asks
\* for no further frame; a non-final tick marks the animator inactive, the
\* final tick completes it with its flag still set; and the animator never
\* has a frame callback again.
C13_ThrowIsCaught ==
    [][ \A i \in Routes :
          /\ (Frame /\ Throws(i)) =>
                /\ NoFrameAfterThrow(i)
                /\ IF Completes(i)
                   THEN isAnimationActive'[i] /\ phase'[i] = "completed"
                   ELSE ~isAnimationActive'[i] /\ phase'[i] = "failed"
          /\ phase[i] \in {"failed", "completed"} =>
                (raf'[i] = "none" /\ sourceData'[i] = sourceData[i]) ]_vars

\* one animator failed on a partial publish, another completed on a publish
\* that threw, and the clock has gone on since
C13_Witness ==
    \E i, j \in Routes :
        /\ phase[i] = "failed" /\ service[i] = "throws"
        /\ Len(sourceData[i]) >= 1
        /\ phase[j] = "completed" /\ service[j] = "throws"
        /\ sourceData[j] # RouteCoordinates(j)
        /\ now > startTime[j] + routeDuration

\* route j is left as it was, or as its own callback of this frame leaves it
OwnTickOnly(j) ==
    /\ isAnimationActive'[j] = isAnimationActive[j]
    /\ (StopKey(j) \in animationControllers') = (StopKey(j) \in animationControllers)
    /\ IF Ticks(j)
       THEN /\ startTime'[j] = AnchorAt(j)
            /\ animatedCoordinates'[j] = CoordinatesOfTick(j)
            /\ sourceData'[j] = IF Publishes(j) THEN CoordinatesOfTick(j) ELSE sourceData[j]
            /\ IF Completes(j) THEN phase'[j] = "completed" ELSE raf'[j] = "queued"
       ELSE /\ startTime'[j] = startTime[j]
            /\ animatedCoordinates'[j] = animatedCoordinates[j]
            /\ sourceData'[j] = sourceData[j]
            /\ phase'[j] = (IF Runs(j) THEN "cancelled" ELSE phase[j])

\* C18: in a frame where the publish of route i throws, every other route
\* whose publish does not throw keeps its liveness flag and its registry
\* entry; its anchor and revealed prefix are unchanged or are what its own
\* tick computes, and a running one keeps ticking or completes.
C18_ErrorIsLocal ==
    [][ \A i \in Routes :
          (Frame /\ Throws(i)) =>
             \A j \in Routes \ {i} : ~Throws(j) => OwnTickOnly(j) ]_vars

\* route i failed on its first tick, in the frame of route j's first tick (the
\* frames were late); route j went on and completed with its whole route published
C18_Witness ==
    \E i, j \in Routes :
        /\ i # j
        /\ phase[i] = "failed" /\ sourceData[i] = << >> /\ ~isAnimationActive[i]
        /\ startTime[j] = startTime[i]
        /\ phase[j] = "completed" /\ isAnimationActive[j]
        /\ sourceData[j] = RouteCoordinates(j)
        /\ RouteLength(j) > 1

\* route i's animator has a frame callback requested
Activated(i) == raf[i] # "none"

\* route i's animator has stopped rescheduling: it completed, was cancelled,
\* or went inactive on an error
Settled(i) ==
    /\ raf[i] = "none"
    /\ phase[i] \in {"completed", "cancelled", "failed"}

\* C19: every activated animator eventually stops rescheduling, as completed,
\* cancelled or failed, whatever the map answers to its publishes.
C19_AnimatorsSettle ==
    \A i \in RouteIds : Activated(i) ~> Settled(i)

\* an animator that ticked to completion although its source was missing
\* from its first tick on: nothing was ever published
C19_Witness ==
    \E i \in Routes :
        /\ map = "live"
        /\ Settled(i) /\ phase[i] = "completed"
        /\ service[i] = "missing"
        /\ sourceData[i] = << >>
        /\ RouteLength(i) = MaxCoords

RECURSIVE SumOf(_)
SumOf(shape) == IF shape = << >> THEN 0 ELSE Head(shape) + SumOf(Tail(shape))

\* the k-th coordinate of the s-th line string of feature f
PointOf(f, s, k) == LineStrings(f)[s][k]

\* C14: the flattened coordinates of a LineString are its path as it is;
\* those of a MultiLineString hold every coordinate of every line string,
\* line strings in their order and each in its own order, and nothing else;
\* and that sequence is what a completed animation has published.
C14_FlattenConcatenates ==
    \A i \in Routes :
        HasFeature(i) =>
            LET f == FeatureAt(i)
                c == Flatten(f)
            IN  /\ f.type = "LineString" =>
                      c = [k \in 1 .. f.shape[1] |-> PointOf(f, 1, k)]
                /\ f.type = "MultiLineString" =>
                      /\ Len(c) = SumOf(f.shape)
                      /\ \A s \in 1 .. Len(f.shape) :
                            \A k \in 1 .. f.shape[s] :
                                c[SumOf(SubSeq(f.shape, 1, s - 1)) + k] = PointOf(f, s, k)
                /\ phase[i] = "completed" => sourceData[i] = c

\* [[a, b], [c, d]] has been animated to its end: a, b, c, d is published
C14_Witness ==
    /\ features = << [type |-> "MultiLineString", shape |-> << 2, 2 >>] >>
    /\ phase[0] = "completed"
    /\ sourceData[0] = << 1, 2, 3, 4 >>
    /\ LineStrings(features[1]) = << << 1, 2 >>, << 3, 4 >> >>

\* feature i has a geometry type startRouteAnimations does not animate
Unsupported(i) ==
    HasFeature(i) /\ FeatureAt(i).type \notin {"LineString", "MultiLineString"}

\* nothing was ever set up for route i
NeverSetUp(i) ==
    /\ ~animSource[i]
    /\ timer[i] = "unset"
    /\ phase[i] = "idle"
    /\ raf[i] = "none"
    /\ sourceData[i] = << >>
    /\ \A key \in animationControllers : key.route # i

\* C15: a feature whose geometry is neither a LineString nor a
\* MultiLineString never gets a source, a timer, a registry entry or a
\* publish, and once startRouteAnimations has run every valid feature of the
\* collection has its timer and (while the map lives) its source.
C15_UnsupportedSkipped ==
    /\ \A i \in Routes : Unsupported(i) => NeverSetUp(i)
    /\ plan # NoPlan =>
          \A j \in Routes :
              ValidRoute(j) => (timer[j] # "unset" /\ (map = "live" => animSource[j]))

\* a Polygon followed by a valid route that has been animated to its end
C15_Witness ==
    \E i, j \in Routes :
        /\ i < j
        /\ HasFeature(i) /\ FeatureAt(i).type = "Polygon"
        /\ ValidRoute(j)
        /\ phase[j] = "completed"
        /\ sourceData[j] = RouteCoordinates(j)

\* startRouteAnimations has set route i up: a source and a timer were created
SetUp(i) == timer[i] # "unset"

\* C16: every feature that was set up has a non-empty flattened coordinate
\* sequence, and for a feature whose flattened sequence is empty nothing is
\* ever set up.
C16_SetUpIsNonEmpty ==
    \A i \in Routes :
        HasFeature(i) =>
            /\ SetUp(i) => RouteCoordinates(i) # << >>
            /\ RouteCoordinates(i) = << >> => NeverSetUp(i)

\* the time startRouteAnimations ran: the first timer has no delay
CampaignStart == timerDue[0]

\* t ms after the start, the frames having come on time: route 0 was anchored
\* at its start offset 0, route 1 at its start offset 500, and both have just
\* run their callback for the present frame
ScenarioAt(t) ==
    /\ plan # NoPlan
    /\ now = CampaignStart + t
    /\ startTime[0] = CampaignStart
    /\ startTime[1] = CampaignStart + 500
    /\ \A i \in {0, 1} : raf[i] # "ready" /\ currentStep[i] = StepOfTick(i)

\* the delays handed to setTimeout are 0, 500 and 1000 ms
ScenarioOffsets ==
    plan # NoPlan =>
        [k \in 1 .. Len(plan.offsets) |-> TimerDelay(plan.offsets[k])] = << 0, 500, 1000 >>

\* C17, as claimed: the start offsets are 0, 500 and 1000, and 1000 ms after
\* the start route 0 is complete with 10 coordinates, route 1 shows 3, and
\* route 2 is pending with nothing published.
C17_EndToEnd ==
    /\ ScenarioOffsets
    /\ ScenarioAt(1000) =>
          /\ phase[0] = "completed" /\ Len(sourceData[0]) = 10
          /\ Len(sourceData[1]) = 3
          /\ phase[2] = "pending" /\ sourceData[2] = << >>

\* C17, amended: the start offsets are 0, 500 and 1000, and 1000 ms after
\* the start route 0 is still running with 7 coordinates shown, route 1
\* shows 4, and route 2, whose timer is due, has published nothing, or its
\* first coordinate if its first frame callback has run.
C17_EndToEndAsComputed ==
    /\ ScenarioOffsets
    /\ ScenarioAt(1000) =>
          /\ phase[0] = "running" /\ Len(sourceData[0]) = 7
          /\ phase[1] = "running" /\ Len(sourceData[1]) = 4
          /\ timerDue[2] = now /\ phase[2] \in {"pending", "running"}
          /\ Len(sourceData[2]) = (IF raf[2] = "queued" THEN 1 ELSE 0)

\* 1000 ms after a start at a clock reading above 0, frames on time
C17_Witness ==
    /\ ScenarioAt(1000)
    /\ CampaignStart > 0
    /\ raf[0] = "queued" /\ raf[1] = "queued" /\ phase[2] = "pending"
    /\ plan.W = 3000 /\ routeDuration = 1500 /\ plan.F = 200
    /\ \A i \in ScenarioRoutes : RouteLength(i) = 10

\* what the map shows and what the animators hold
mapSide == << sourceData, baseVisibility, routesSource, animSource >>
closures == << startTime, currentStep, animatedCoordinates >>

\* C20: once cleanup has set map.value to null, nothing is published and
\* nothing on the map changes; a timer that fires then still creates its
\* animator, whose frame callback returns at its first line: it computes
\* nothing and requests no further frame.
C20_NothingAfterCleanup ==
    [][ map = "null" =>
          /\ map' = "null"
          /\ UNCHANGED mapSide
          /\ \A i \in Routes : ~Publishes(i)
          /\ Frame => /\ UNCHANGED closures
                      /\ \A i \in Routes :
                            Runs(i) => (raf'[i] = "none" /\ phase'[i] = "cancelled") ]_vars

\* after cleanup: a timer that was pending at the cleanup has fired and its
\* callback has returned, and so has the callback that was queued at the
\* cleanup for a route that was running
C20_Witness ==
    /\ map = "null"
    /\ \E i, j \in Routes :
          /\ stoppedWhile[i] = "pending" /\ timer[i] = "fired"
          /\ phase[i] = "cancelled" /\ isAnimationActive[i]
          /\ sourceData[i] = << >>
          /\ stoppedWhile[j] = "running" /\ phase[j] = "cancelled"
          /\ Len(sourceData[j]) >= 1

\* a stopAllAnimations (or cleanup) has met the campaign; this program starts
\* no campaign after it
StoppedSinceStart == \E i \in Routes : stoppedWhile[i] # "none"

\* C21: once a stop-all has returned, the registry is empty and stays empty:
\* no timer or frame callback of the stopped campaign adds an entry.
C21_RegistryStaysEmpty ==
    StoppedSinceStart => animationControllers = {}

\* the test of setAnimationSpeed: animationControllers.value.size > 0
AnimationsActive == animationControllers # {}

\* C22: the registry is non-empty exactly when some route is pending or
\* running.
C22_ActiveTestIsExact ==
    map = "live" => (AnimationsActive <=> \E i \in Routes : Pending(i) \/ Running(i))

\* C23: once an animator's anchor is set it never changes, whatever the
\* timestamp of its first tick, and the elapsed time of a tick is not
\* negative.
C23_AnchorSetOnce ==
    [][ \A i \in Routes :
          /\ startTime[i] # Null => startTime'[i] = startTime[i]
          /\ (Frame /\ Ticks(i)) => ElapsedAt(i) >= 0 ]_vars

====
